---- MODULE Spec2Model ----
(***************************************************************************)
(* FlowTrend Pro (src/home.py): the Live Whale Scanner page (deep scan,   *)
(* websocket listener, the shared deque in session state) and the symbol  *)
(* codec of the Contract Inspector page (the O:<TICKER><YYMMDD><C|P><8    *)
(* digits> construction and parse_details).                               *)
(*                                                                         *)
(* Strings that the code inspects character by character (option symbols, *)
(* tickers, dates) are sequences of one-character strings.  Python floats *)
(* are IEEE-754 doubles, kept as a 53-bit mantissa and a binary exponent; *)
(* the mantissa is a little-endian sequence of 15-bit limbs because the   *)
(* model checker's integers are 32 bits wide.                             *)
(***************************************************************************)
EXTENDS Integers, Sequences, FiniteSets, TLC

VARIABLES
    scanner_data,    \* st.session_state["scanner_data"]: the deque, front (left) first
    thread_started,  \* "thread_started" in st.session_state
    active_sym,      \* st.session_state['active_sym'], NoSym while the key is absent
    pc,              \* where the script thread is inside the Start / Refresh handler
    scan_args,       \* (tickers, threshold) of the run_deep_scan call in progress or last made
    tix,             \* run_deep_scan: index of the next ticker of `for t in tickers`
    new_data,        \* run_deep_scan: the local list new_data
    rix,             \* run_deep_scan: index of the next row of `for row in new_data`
    listener,        \* the listener thread: "none", "running", or "dead" once ws.run has ended
    listener_args,   \* (tickers, threshold) the listener thread was created with
    threads_created, \* history: number of threading.Thread objects started
    birth,           \* history: for each buffer slot, the rank of its insertion among the slots
    last_op,         \* history: what the latest step did to the buffer
    scan_missed,     \* history: a contract with no fault of its own was left out of new_data
    inspected        \* history: the widget values the latest Analyze click encoded

vars == <<scanner_data, thread_started, active_sym, pc, scan_args, tix, new_data, rix,
          listener, listener_args, threads_created, birth, last_op, scan_missed,
          inspected>>

scanner_vars == <<scanner_data, thread_started, pc, scan_args, tix, new_data, rix,
                  listener, listener_args, threads_created, birth, last_op,
                  scan_missed>>

inspector_vars == <<active_sym, inspected>>

(***************************************************************************)
(* Model bounds.                                                          *)
(***************************************************************************)
\* capacity of the deque, deque(maxlen=2000) in the program, scaled down
maxlen == 2
\* longest options chain one list_snapshot_options_chain call yields
MaxChain == 2
\* expiry years offered by the date picker run from FirstYear to LastYear
FirstYear == 2025
LastYear == 2026
\* strikes offered by the strike selectbox, in cents
MinStrikeCents == 195
MaxStrikeCents == 205

(***************************************************************************)
(* Characters and strings.                                                *)
(***************************************************************************)
Digits10 == <<"0", "1", "2", "3", "4", "5", "6", "7", "8", "9">>
Digit == {Digits10[i] : i \in 1..10}
Upper == {"A", "B", "C", "D", "E", "F", "G", "H", "I", "J", "K", "L", "M",
          "N", "O", "P", "Q", "R", "S", "T", "U", "V", "W", "X", "Y", "Z"}

DigitVal(c) == (CHOOSE i \in 1..10 : Digits10[i] = c) - 1

\* Python's `t in s` for strings: t occurs in s as a contiguous substring
Contains(s, t) ==
    \E i \in 0..(Len(s) - Len(t)) : SubSeq(s, i + 1, i + Len(t)) = t

RECURSIVE DecimalOf(_)
\* str(n) for n >= 0
DecimalOf(n) ==
    IF n < 10 THEN <<Digits10[n + 1]>>
    ELSE DecimalOf(n \div 10) \o <<Digits10[(n % 10) + 1]>>

\* format(n, "0{w}d") for n >= 0: zero-padded to at least w characters
ZeroPad(n, w) ==
    LET s == DecimalOf(n)
    IN IF Len(s) >= w THEN s ELSE [i \in 1..(w - Len(s)) |-> "0"] \o s

RECURSIVE IntOf(_)
\* int(s) / float(s) of a string of decimal digits
IntOf(s) ==
    IF s = <<>> THEN 0
    ELSE 10 * IntOf(SubSeq(s, 1, Len(s) - 1)) + DigitVal(s[Len(s)])

(***************************************************************************)
(* Naturals wider than 32 bits: little-endian limbs, no leading zero limb.*)
(***************************************************************************)
Limb == [bits |-> 15, base |-> 32768]
LIMB_BITS == Limb.bits
BASE == Limb.base

RECURSIVE Strip(_)
Strip(a) ==
    IF Len(a) > 0 /\ a[Len(a)] = 0 THEN Strip(SubSeq(a, 1, Len(a) - 1)) ELSE a

RECURSIVE FromInt(_)
FromInt(n) == IF n = 0 THEN <<>> ELSE <<n % BASE>> \o FromInt(n \div BASE)

RECURSIVE ToInt(_)
ToInt(a) == IF a = <<>> THEN 0 ELSE a[1] + BASE * ToInt(Tail(a))

RECURSIVE MulCarry(_, _, _)
MulCarry(a, c, carry) ==
    IF a = <<>> THEN FromInt(carry)
    ELSE LET v == a[1] * c + carry
         IN <<v % BASE>> \o MulCarry(Tail(a), c, v \div BASE)

\* a * c for a small c
MulSmall(a, c) == Strip(MulCarry(a, c, 0))

AddOne(a) == Strip(MulCarry(a, 1, 1))

RECURSIVE DivRem(_, _, _)
\* long division of limbs i.. of a by a small c, most significant limb first
DivRem(a, c, i) ==
    IF i > Len(a) THEN [q |-> <<>>, r |-> 0]
    ELSE LET hi == DivRem(a, c, i + 1)
             v  == hi.r * BASE + a[i]
         IN [q |-> <<v \div c>> \o hi.q, r |-> v % c]

DivMod(a, c) == LET d == DivRem(a, c, 1) IN [q |-> Strip(d.q), r |-> d.r]

RECURSIVE Pow2(_)
Pow2(n) == IF n = 0 THEN 1 ELSE 2 * Pow2(n - 1)

RECURSIVE BitLenInt(_)
BitLenInt(n) == IF n = 0 THEN 0 ELSE 1 + BitLenInt(n \div 2)

BitLen(a) ==
    IF a = <<>> THEN 0 ELSE LIMB_BITS * (Len(a) - 1) + BitLenInt(a[Len(a)])

\* a * 2^n
ShiftLeft(a, n) ==
    IF a = <<>> THEN a
    ELSE [i \in 1..(n \div LIMB_BITS) |-> 0] \o MulSmall(a, Pow2(n % LIMB_BITS))

\* floor(a / 2^n)
ShiftRight(a, n) ==
    IF n \div LIMB_BITS >= Len(a) THEN <<>>
    ELSE DivMod(SubSeq(a, (n \div LIMB_BITS) + 1, Len(a)), Pow2(n % LIMB_BITS)).q

\* bit n of a is set
Bit(a, n) == LET s == ShiftRight(a, n) IN s # <<>> /\ s[1] % 2 = 1

\* the n low bits of a are all zero
LowBitsZero(a, n) == ShiftLeft(ShiftRight(a, n), n) = a

(***************************************************************************)
(* IEEE-754 binary64 (Python float), positive normal values and zero:     *)
(* [mant, exp] stands for mant * 2^exp with 2^52 <= mant < 2^53.          *)
(***************************************************************************)
MANT_DIG == 53

FloatZero == [mant |-> <<>>, exp |-> 0]

\* a / 2^n rounded to an integer, ties to even
RoundShift(a, n) ==
    LET q      == ShiftRight(a, n)
        half   == n > 0 /\ Bit(a, n - 1)
        sticky == n > 1 /\ ~LowBitsZero(a, n - 1)
    IN IF half /\ (sticky \/ Bit(q, 0)) THEN AddOne(q) ELSE q

\* the double nearest to m * 2^e (round to nearest, ties to even)
Round53(m, e) ==
    IF m = <<>> THEN FloatZero
    ELSE LET n == IF BitLen(m) > MANT_DIG THEN BitLen(m) - MANT_DIG ELSE 0
             r == RoundShift(m, n)
             up == MANT_DIG - BitLen(r)
         IN IF BitLen(r) > MANT_DIG
            THEN [mant |-> ShiftRight(r, 1), exp |-> e + n + 1]
            ELSE [mant |-> ShiftLeft(r, up), exp |-> (e + n) - up]

\* the double nearest to the rational k / c: what the JSON number with that
\* decimal value parses to, and what float(k) / float(c) returns (k and c
\* are below 2^53, so float(k) and float(c) are exact)
FloatDiv(k, c) ==
    IF k = 0 THEN FloatZero
    ELSE LET s == MANT_DIG + 2 + BitLenInt(c)
             d == DivMod(ShiftLeft(FromInt(k), s), c)
             \* one more low bit, set when the division left a remainder
             m == IF d.r = 0 THEN MulSmall(d.q, 2) ELSE AddOne(MulSmall(d.q, 2))
         IN Round53(m, -(s + 1))

\* f * c for a float f and a small integer c
FloatMul(f, c) == Round53(MulSmall(f.mant, c), f.exp)

\* int(f): truncation toward zero
Trunc(f) ==
    IF f.exp >= 0 THEN ToInt(ShiftLeft(f.mant, f.exp))
    ELSE ToInt(ShiftRight(f.mant, -f.exp))

(***************************************************************************)
(* Symbol codec.                                                          *)
(***************************************************************************)
\* the fallback tuple's placeholders
Dash == <<"-">>

\* length of the run of characters of `set` that starts at position i of s
RECURSIVE RunLen(_, _, _)
RunLen(s, i, set) ==
    IF i <= Len(s) /\ s[i] \in set THEN 1 + RunLen(s, i + 1, set) ELSE 0

AllIn(s, set) == \A i \in 1..Len(s) : s[i] \in set

\* re.match(r"O:([A-Z]+)(\d{6})([CP])(\d{8})", symbol): anchored at the start
\* only.  Letters and digits are disjoint, so the greedy [A-Z]+ can only end
\* at the end of the run of letters: giving a letter back leaves a letter
\* where \d is required.
ReMatch(symbol) ==
    LET n == RunLen(symbol, 3, Upper)
        a == 3 + n
    IN IF /\ Len(symbol) >= a + 14
          /\ symbol[1] = "O" /\ symbol[2] = ":"
          /\ n >= 1
          /\ AllIn(SubSeq(symbol, a, a + 5), Digit)
          /\ symbol[a + 6] \in {"C", "P"}
          /\ AllIn(SubSeq(symbol, a + 7, a + 14), Digit)
       THEN [matched    |-> TRUE,
             ticker     |-> SubSeq(symbol, 3, a - 1),
             date_str   |-> SubSeq(symbol, a, a + 5),
             type_char  |-> symbol[a + 6],
             strike_str |-> SubSeq(symbol, a + 7, a + 14)]
       ELSE [matched |-> FALSE]

\* parse_details(symbol) -> (ticker, expiry, strike_val, side)
parse_details(symbol) ==
    LET match == ReMatch(symbol)
    IN IF match.matched
       THEN [ticker |-> match.ticker,
             expiry |-> <<"2", "0">> \o SubSeq(match.date_str, 1, 2) \o <<"-">>
                        \o SubSeq(match.date_str, 3, 4) \o <<"-">>
                        \o SubSeq(match.date_str, 5, 6),
             strike |-> FloatDiv(IntOf(match.strike_str), 1000),
             side   |-> IF match.type_char = "C" THEN "Call" ELSE "Put"]
       ELSE [ticker |-> symbol, expiry |-> Dash, strike |-> FloatZero, side |-> "-"]

\* expiry.strftime("%y%m%d")
Strftime_ymd(date) ==
    ZeroPad(date.y % 100, 2) \o ZeroPad(date.m, 2) \o ZeroPad(date.d, 2)

\* the strike digits of the symbol: f"{int(sel_strike*1000):08d}"
StrikeDigits(sel_strike) == ZeroPad(Trunc(FloatMul(sel_strike, 1000)), 8)

\* final_sym = f"O:{target}{d}{t}{s}"
final_sym(target, expiry, side, sel_strike) ==
    <<"O", ":">> \o target \o Strftime_ymd(expiry)
    \o <<IF side = "Call" THEN "C" ELSE "P">> \o StrikeDigits(sel_strike)

(***************************************************************************)
(* Widgets and the data the gateway can return.                           *)
(***************************************************************************)
NVDA == <<"N", "V", "D", "A">>
AMD  == <<"A", "M", "D">>
SPY  == <<"S", "P", "Y">>
SPYG == <<"S", "P", "Y", "G">>

\* st.multiselect("Watchlist", [...]): the selected options in the order they
\* were picked; two of the eight options and two of their selections
WatchOptions == {AMD, SPY}
Watchlists == {<<SPY>>, <<AMD, SPY>>}

\* st.number_input("Min Trade Value ($)", value=20_000, step=10_000)
MinValues == {20000, 100000}

\* st.selectbox("Ticker", [...]) of the inspector; two of the ten options
InspectorTickers == {NVDA, SPY}

\* an attribute that may be None is a set: empty for None, else its value alone
None == {}
Some(v) == {v}
ValueOf(o) == CHOOSE v \in o : TRUE
NoSym == <<>>
NoArgs == [tickers |-> <<>>, threshold |-> 0]

\* the contract symbols the gateway names: one call and one put per underlying
CallSymbol(t) == <<"O", ":">> \o t \o <<"2","5","1","2","0","5","C","0","0","1","8","5","0","0","0">>
PutSymbol(t)  == <<"O", ":">> \o t \o <<"2","5","1","2","0","5","P","0","0","1","5","0","0","0","0">>

\* trade prints (price in whole dollars, size in lots, condition codes)
BigPrint   == [price |-> 1,  size |-> 2500, conditions |-> {}]
MidPrint   == [price |-> 10, size |-> 50,   conditions |-> {}]

\* the answer of a gateway call that may raise
Raises == [ok |-> FALSE, items |-> <<>>]
Returns(items) == [ok |-> TRUE, items |-> items]

Day(volume, close) == Some([volume |-> volume, close |-> close])

\* one element of list_snapshot_options_chain(t): the day summary (or None),
\* details.ticker, and what list_trades answers for it
Snapshots(t) ==
    { [day |-> Day(Some(5000), Some(1)),  ticker |-> CallSymbol(t), trades |-> Returns(<<BigPrint>>)],
      [day |-> Day(Some(100), Some(10)),  ticker |-> PutSymbol(t),  trades |-> Returns(<<MidPrint>>)],
      [day |-> None,                      ticker |-> CallSymbol(t), trades |-> Returns(<<BigPrint>>)],
      [day |-> Day(None, Some(10)),       ticker |-> CallSymbol(t), trades |-> Returns(<<BigPrint>>)],
      [day |-> Day(Some(0), Some(10)),    ticker |-> CallSymbol(t), trades |-> Returns(<<BigPrint>>)],
      [day |-> Day(Some(100), None),      ticker |-> CallSymbol(t), trades |-> Returns(<<BigPrint>>)],
      [day |-> Day(Some(1), Some(1)),     ticker |-> PutSymbol(t),  trades |-> Returns(<<>>)],
      [day |-> Day(Some(5000), Some(1)),  ticker |-> CallSymbol(t), trades |-> Raises] }

\* what client.list_snapshot_options_chain(t, ...) answers: it raises, or it
\* yields snapshots, up to MaxChain of them here.  The call returns an
\* iterator that the loop drains; `limit` is a request parameter handed to
\* the gateway and nothing in run_deep_scan counts the items, so the number
\* of rows a scan gathers is not tied to the capacity of the deque.
Chains(t) ==
    {Raises} \cup {Returns(ch) : ch \in UNION {[1..n -> Snapshots(t)] : n \in 0..MaxChain}}

\* the trade events of the stream
StreamMsgs ==
    { [event_type |-> "T", symbol |-> CallSymbol(SPY),  price |-> 10, size |-> 50,   conditions |-> {14}],
      [event_type |-> "T", symbol |-> CallSymbol(SPYG), price |-> 1,  size |-> 2500, conditions |-> {}],
      [event_type |-> "T", symbol |-> PutSymbol(AMD),   price |-> 10, size |-> 50,   conditions |-> {}] }

(***************************************************************************)
(* The deque.  birth runs beside scanner_data: birth[i] is the rank of    *)
(* slot i by time of insertion, 1 for the slot filled longest ago.        *)
(***************************************************************************)
\* deque.append(x) under maxlen: a full deque drops its leftmost item
append(d, x) == IF Len(d) = maxlen THEN Tail(d) \o <<x>> ELSE d \o <<x>>

\* deque.appendleft(x) under maxlen: a full deque drops its rightmost item
appendleft(d, x) ==
    IF Len(d) = maxlen THEN <<x>> \o SubSeq(d, 1, maxlen - 1) ELSE <<x>> \o d

\* ranks 1..n again after the slot of rank r went away
Rerank(b, r) == [i \in DOMAIN b |-> IF b[i] > r THEN b[i] - 1 ELSE b[i]]

BirthAfterAppend(b) ==
    IF Len(b) = maxlen THEN Rerank(Tail(b) \o <<Len(b) + 1>>, b[1])
    ELSE b \o <<Len(b) + 1>>

BirthAfterAppendleft(b) ==
    IF Len(b) = maxlen THEN Rerank(<<Len(b) + 1>> \o SubSeq(b, 1, maxlen - 1), b[Len(b)])
    ELSE <<Len(b) + 1>> \o b

NoOp == [kind |-> "none", evicted |-> 0, rank |-> 0]

\* the record of an insertion: how many items it dropped and the rank of the
\* dropped one (slot `gone` of the deque before the insertion)
OpRecord(kind, b, gone) ==
    IF Len(b) = maxlen THEN [kind |-> kind, evicted |-> 1, rank |-> b[gone]]
    ELSE [kind |-> kind, evicted |-> 0, rank |-> 0]

(***************************************************************************)
(* run_deep_scan.  A row carries the dict's keys that the page logic      *)
(* reads (Strike Price and Time are display strings and are left out),    *)
(* and two history fields the dict lacks: the contract symbol and the     *)
(* condition codes of the print it was made from.                         *)
(***************************************************************************)
\* parse_details of every symbol the gateway names, worked out once
GatewaySymbols ==
    {CallSymbol(t) : t \in {AMD, SPY, SPYG}} \cup {PutSymbol(t) : t \in {AMD, SPY, SPYG}}
DetailsOf == [symbol \in GatewaySymbols |-> parse_details(symbol)]

ScanRow(t, c, tr) ==
    LET d == DetailsOf[c.ticker]
    IN [Stock_Symbol |-> t,
        Expiry       |-> d.expiry,
        Call_or_Put  |-> d.side,
        Trade_Size   |-> tr.size,
        Trade_Value  |-> tr.price * tr.size * 100,
        Tags         |-> "BLOCK",
        contract     |-> c.ticker,
        conditions   |-> tr.conditions]

\* for tr in trades: if trade_val >= threshold: new_data.append({...})
RECURSIVE TradeRows(_, _, _, _, _)
TradeRows(t, c, trades, threshold, i) ==
    IF i > Len(trades) THEN <<>>
    ELSE (IF trades[i].price * trades[i].size * 100 >= threshold
          THEN <<ScanRow(t, c, trades[i])>> ELSE <<>>)
         \o TradeRows(t, c, trades, threshold, i + 1)

\* `if not c.day or not c.day.volume: continue`
NoDayVolume(c) ==
    c.day = None \/ ValueOf(c.day).volume = None \/ ValueOf(c.day).volume = Some(0)

\* c.day.volume * c.day.close * 100 with close None raises TypeError outside
\* the inner try: the handler of the ticker's try catches it
CloseRaises(c) == ValueOf(c.day).close = None

\* `if (c.day.volume * c.day.close * 100) < threshold: continue`
BelowThreshold(c, threshold) ==
    ValueOf(ValueOf(c.day).volume) * ValueOf(ValueOf(c.day).close) * 100 < threshold

\* the body of `for c in chain:` from contract i on
RECURSIVE ChainRows(_, _, _, _)
ChainRows(t, chain, threshold, i) ==
    IF i > Len(chain) THEN <<>>
    ELSE LET c == chain[i]
             rest == ChainRows(t, chain, threshold, i + 1)
         IN IF NoDayVolume(c) THEN rest
            ELSE IF CloseRaises(c) THEN <<>>
            ELSE IF BelowThreshold(c, threshold) THEN rest
            ELSE IF ~c.trades.ok THEN rest
            ELSE TradeRows(t, c, c.trades.items, threshold, 1) \o rest

\* one iteration of `for t in tickers:`
TickerRows(t, chain, threshold) ==
    IF ~chain.ok THEN <<>> ELSE ChainRows(t, chain.items, threshold, 1)

\* list.sort(key=Trade Value, reverse=True): stable, descending
RECURSIVE SortDesc(_)
SortDesc(rows) ==
    IF rows = <<>> THEN <<>>
    ELSE LET head == SortDesc(SubSeq(rows, 1, Len(rows) - 1))
             x    == rows[Len(rows)]
             k    == Cardinality({j \in 1..Len(head) : head[j].Trade_Value >= x.Trade_Value})
         IN SubSeq(head, 1, k) \o <<x>> \o SubSeq(head, k + 1, Len(head))

\* what the scan owes for a chain when a contract's failure costs that
\* contract alone (the yardstick of scan_missed)
RECURSIVE RowsOfSoundContracts(_, _, _, _)
RowsOfSoundContracts(t, chain, threshold, i) ==
    IF i > Len(chain) THEN <<>>
    ELSE LET c == chain[i]
             rest == RowsOfSoundContracts(t, chain, threshold, i + 1)
         IN IF NoDayVolume(c) \/ CloseRaises(c) THEN rest
            ELSE IF BelowThreshold(c, threshold) \/ ~c.trades.ok THEN rest
            ELSE TradeRows(t, c, c.trades.items, threshold, 1) \o rest

(***************************************************************************)
(* Initial state: a fresh session.                                        *)
(***************************************************************************)
Init ==
    /\ scanner_data = <<>>
    /\ thread_started = FALSE
    /\ active_sym = NoSym
    /\ pc = "idle"
    /\ scan_args = NoArgs
    /\ tix = 1
    /\ new_data = <<>>
    /\ rix = 1
    /\ listener = "none"
    /\ listener_args = NoArgs
    /\ threads_created = 0
    /\ birth = <<>>
    /\ last_op = NoOp
    /\ scan_missed = FALSE
    /\ inspected = [target |-> <<>>, expiry |-> [y |-> 0, m |-> 0, d |-> 0],
                    side |-> "-", strike |-> FloatZero]

(***************************************************************************)
(* The script thread: the Start / Refresh button.                         *)
(***************************************************************************)
\* `if st.button(...)`: run_deep_scan(api_key, watch, min_val) is entered
Click(watch, min_val) ==
    /\ pc = "idle"
    /\ pc' = "scan"
    /\ scan_args' = [tickers |-> watch, threshold |-> min_val]
    /\ new_data' = <<>>
    /\ tix' = 1
    /\ rix' = 1
    /\ scan_missed' = FALSE
    /\ last_op' = NoOp
    /\ UNCHANGED <<scanner_data, birth, thread_started, listener, listener_args,
                   threads_created, inspector_vars>>

\* what one iteration of `for t in tickers:` can come to: for each answer of
\* the gateway the rows the iteration appends, and whether it left out a
\* contract that had no fault of its own; worked out once
ScanOutcomes ==
    [t \in WatchOptions, threshold \in MinValues |->
        {[rows   |-> TickerRows(t, chain, threshold),
          missed |-> chain.ok /\ TickerRows(t, chain, threshold)
                                  # RowsOfSoundContracts(t, chain.items, threshold, 1)] :
            chain \in Chains(t)}]

\* one iteration of `for t in tickers:`
ScanTicker(outcome) ==
    /\ pc = "scan"
    /\ tix <= Len(scan_args.tickers)
    /\ outcome \in ScanOutcomes[scan_args.tickers[tix], scan_args.threshold]
    /\ new_data' = new_data \o outcome.rows
    /\ scan_missed' = (scan_missed \/ outcome.missed)
    /\ tix' = tix + 1
    /\ last_op' = NoOp
    /\ UNCHANGED <<scanner_data, birth, thread_started, pc, scan_args, rix, listener,
                   listener_args, threads_created, inspector_vars>>

\* the loop is over: new_data.sort(...), then scanner_data.clear()
SortAndClear ==
    /\ pc = "scan"
    /\ tix > Len(scan_args.tickers)
    /\ new_data' = SortDesc(new_data)
    /\ scanner_data' = <<>>
    /\ birth' = <<>>
    /\ pc' = "refill"
    /\ rix' = 1
    /\ last_op' = NoOp
    /\ UNCHANGED <<thread_started, scan_args, tix, listener, listener_args,
                   threads_created, scan_missed, inspector_vars>>

\* one iteration of `for row in new_data: scanner_data.append(row)`
Refill ==
    /\ pc = "refill"
    /\ rix <= Len(new_data)
    /\ scanner_data' = append(scanner_data, new_data[rix])
    /\ birth' = BirthAfterAppend(birth)
    /\ last_op' = OpRecord("refill", birth, 1)
    /\ rix' = rix + 1
    /\ UNCHANGED <<thread_started, pc, scan_args, tix, new_data, listener, listener_args,
                   threads_created, scan_missed, inspector_vars>>

\* run_deep_scan has returned
ScanComplete == pc = "refill" /\ rix > Len(new_data)

\* the guard gone: every request starts a thread
ThreadNotStarted_Unguarded == TRUE

\* `if "thread_started" not in st.session_state:`
ThreadNotStarted == ~thread_started

\* the guard and the thread start that follow the scan
StartListener ==
    /\ ScanComplete
    /\ IF ThreadNotStarted
       THEN /\ thread_started' = TRUE
            /\ listener' = "running"
            /\ listener_args' = scan_args
            /\ threads_created' = threads_created + 1
       ELSE UNCHANGED <<thread_started, listener, listener_args, threads_created>>
    /\ pc' = "idle"
    /\ new_data' = <<>>
    /\ tix' = 1
    /\ rix' = 1
    /\ scan_missed' = FALSE
    /\ last_op' = NoOp
    /\ UNCHANGED <<scanner_data, birth, scan_args, inspector_vars>>

(***************************************************************************)
(* The listener thread.  It reads st.session_state["scanner_data"] as the  *)
(* code is written: the deque the script thread fills.                    *)
(***************************************************************************)
\* next((t for t in tickers if t in m.symbol), None): None is <<>>
Found(tickers, symbol) ==
    LET hits == {i \in 1..Len(tickers) : Contains(symbol, tickers[i])}
    IN IF hits = {} THEN <<>>
       ELSE tickers[CHOOSE i \in hits : \A j \in hits : i <= j]

\* tag = "SWEEP" if 14 in conds else "LIVE"
LiveTag(conds) == IF 14 \in conds THEN "SWEEP" ELSE "LIVE"

LiveRow(found, m) ==
    LET d == DetailsOf[m.symbol]
    IN [Stock_Symbol |-> found,
        Expiry       |-> d.expiry,
        Call_or_Put  |-> d.side,
        Trade_Size   |-> m.size,
        Trade_Value  |-> m.price * m.size * 100,
        Tags         |-> LiveTag(m.conditions),
        contract     |-> m.symbol,
        conditions   |-> m.conditions]

\* the message passes the filters of handle_msg
Wanted(m) ==
    /\ m.event_type = "T"
    /\ Found(listener_args.tickers, m.symbol) # <<>>
    /\ m.price * m.size * 100 >= listener_args.threshold

\* handle_msg for one message of a batch
HandleMsg(m) ==
    /\ listener = "running"
    /\ IF Wanted(m)
       THEN /\ scanner_data' =
                   appendleft(scanner_data, LiveRow(Found(listener_args.tickers, m.symbol), m))
            /\ birth' = BirthAfterAppendleft(birth)
            /\ last_op' = OpRecord("push", birth, Len(birth))
       ELSE /\ last_op' = NoOp
            /\ UNCHANGED <<scanner_data, birth>>
    /\ UNCHANGED <<thread_started, pc, scan_args, tix, new_data, rix, listener,
                   listener_args, threads_created, scan_missed, inspector_vars>>

\* ws.run(handle_msg) returns or raises: start_listener ends and with it the thread
ListenerExit ==
    /\ listener = "running"
    /\ listener' = "dead"
    /\ last_op' = NoOp
    /\ UNCHANGED <<scanner_data, birth, thread_started, pc, scan_args, tix, new_data, rix,
                   listener_args, threads_created, scan_missed, inspector_vars>>

Next ==
    \/ \E watch \in Watchlists, min_val \in MinValues : Click(watch, min_val)
    \/ \E outcome \in UNION {ScanOutcomes[a] : a \in DOMAIN ScanOutcomes} : ScanTicker(outcome)
    \/ SortAndClear
    \/ Refill
    \/ StartListener
    \/ \E m \in StreamMsgs : HandleMsg(m)
    \/ ListenerExit

Spec == Init /\ [][Next]_vars

(***************************************************************************)
(* The Contract Inspector: the Analyze button.                            *)
(***************************************************************************)
DaysIn(y, m) ==
    IF m = 2 THEN (IF y % 4 = 0 /\ (y % 100 # 0 \/ y % 400 = 0) THEN 29 ELSE 28)
    ELSE IF m \in {4, 6, 9, 11} THEN 30 ELSE 31

\* st.date_input("Expiration"): the first and the last day of each month
ExpiryDates ==
    {[y |-> y, m |-> m, d |-> d] :
        y \in FirstYear..LastYear, m \in {2, 12}, d \in {1}} \cup
    {[y |-> y, m |-> m, d |-> DaysIn(y, m)] : y \in FirstYear..LastYear, m \in {2}}

\* c.strike_price of the listed contracts: the doubles nearest to whole cents
Strikes == {FloatDiv(10 * c, 1000) : c \in MinStrikeCents..MaxStrikeCents}

\* `if st.button("Analyze"): st.session_state['active_sym'] = final_sym`
Analyze(target, expiry, side, sel_strike) ==
    /\ active_sym' = final_sym(target, expiry, side, sel_strike)
    /\ inspected' = [target |-> target, expiry |-> expiry, side |-> side,
                     strike |-> sel_strike]
    /\ UNCHANGED scanner_vars

NextInspector ==
    \E target \in InspectorTickers, expiry \in ExpiryDates, side \in {"Call", "Put"},
       sel_strike \in Strikes : Analyze(target, expiry, side, sel_strike)

SpecInspector == Init /\ [][NextInspector]_vars

(***************************************************************************)
(* The claims.                                                            *)
(***************************************************************************)
IsScanRow(r) == r.Tags = "BLOCK"
IsLiveRow(r) == r.Tags \in {"LIVE", "SWEEP"}

\* C1: the buffer never holds more than its capacity, and an insertion into
\* a full buffer (a listener push or a scan refill) evicts exactly one
\* record, the one that has been in the buffer longest (rank 1).
C1_EvictsOldest ==
    /\ Len(scanner_data) <= maxlen
    /\ (last_op.kind # "none" /\ last_op.evicted > 0)
          => (last_op.evicted = 1 /\ last_op.rank = 1)

\* C2: replacing the buffer is atomic: once the old content is gone the
\* buffer holds the complete new scan result (under any live rows pushed
\* since), never an emptied or partly refilled buffer.  Stated for a buffer
\* that has not filled up since, so that no eviction has touched it.
C2_ReplaceIsAtomic ==
    (pc = "refill" /\ Len(scanner_data) < maxlen)
        => SelectSeq(scanner_data, IsScanRow) = new_data

\* C3: over any sequence of Start / Refresh requests the listener thread is
\* started at most once: a request made with thread_started set runs the
\* scan and creates no further thread.
C3_ListenerStartedOnce == threads_created <= 1

\* C3 witness: a request with other arguments than the listener's has been
\* served to the end, so it came after the first, and there is the one thread.
C3_SecondRequestServed ==
    pc = "idle" /\ thread_started /\ scan_args # listener_args /\ threads_created = 1

\* C4: a failure while handling one contract skips that contract alone: when
\* the scan has run, no contract without a fault of its own is missing.
C4_OnlyFailingContractSkipped == ScanComplete => ~scan_missed

\* the classifier rule of C5: first match wins
ClassifierTag(size, conds) ==
    IF size > 2000 THEN "WHALE"
    ELSE IF 14 \in conds THEN "SWEEP"
    ELSE IF size < 5 THEN "TINY"
    ELSE "BLOCK"

\* C5: every record in the buffer carries the tag of the classifier rule:
\* size > 2000 Whale, else condition code 14 Sweep, else size < 5 Tiny, else
\* Block.
C5_TagsFollowClassifier ==
    \A i \in 1..Len(scanner_data) :
        scanner_data[i].Tags =
            ClassifierTag(scanner_data[i].Trade_Size, scanner_data[i].conditions)

\* expiry.strftime("%Y-%m-%d"), the form parse_details returns the expiry in
IsoDate(date) ==
    ZeroPad(date.y, 4) \o <<"-">> \o ZeroPad(date.m, 2) \o <<"-">> \o ZeroPad(date.d, 2)

\* C6: decoding the symbol the inspector built returns the underlying,
\* expiry, strike and side it was built from.
C6_SymbolRoundTrip ==
    active_sym # NoSym =>
        LET d == parse_details(active_sym)
        IN /\ d.ticker = inspected.target
           /\ d.expiry = IsoDate(inspected.expiry)
           /\ d.strike = inspected.strike
           /\ d.side = inspected.side

IsSortedDesc(rows) ==
    \A i \in 1..(Len(rows) - 1) : rows[i].Trade_Value >= rows[i + 1].Trade_Value

\* C7: when a scan completes and no listener has pushed (none exists yet),
\* the buffer holds exactly the records the scan classified, front to back
\* in descending order of Trade Value.
C7_BufferIsTheSortedScan ==
    (ScanComplete /\ listener = "none")
        => (scanner_data = new_data /\ IsSortedDesc(scanner_data))

\* C8: whenever thread_started is set there is a live listener.
C8_ListenerStaysAlive == thread_started => listener = "running"

Range(f) == {f[i] : i \in DOMAIN f}

\* C9: a record the listener pushes meets the most recent scan request: its
\* Trade Value is at least that request's threshold and its Stock Symbol is
\* in that request's watchlist.
C9_PushMeetsLatestRequest ==
    last_op.kind = "push" =>
        /\ scanner_data[1].Trade_Value >= scan_args.threshold
        /\ scanner_data[1].Stock_Symbol \in Range(scan_args.tickers)

\* C10: the Stock Symbol of a record the listener pushed is the underlying
\* ticker that parse_details reads from the trade's contract symbol.
C10_StockSymbolIsUnderlying ==
    \A i \in 1..Len(scanner_data) :
        IsLiveRow(scanner_data[i]) =>
            scanner_data[i].Stock_Symbol = parse_details(scanner_data[i].contract).ticker

====
